---- MODULE Spec2Model ----
(***************************************************************************)
(* Model of the sort_bot evaluation engine: app/core/bot_evaluator.py      *)
(* (BotEvaluator.evaluate_bot, BotEvaluator._run_single_test and the       *)
(* harness file it generates around the bot code) and the                  *)
(* store/API layer around it in app/main.py (submit_bot,                    *)
(* run_bot_evaluation, get_submission, get_submission_results).  The bots  *)
(* and test_cases tables are filled before the first submission and are    *)
(* not written afterwards.  A task is one coroutine of the event loop: its *)
(* steps are cut at the awaits of _run_single_test, and a store operation  *)
(* (query, commit) may raise wherever the code performs one.               *)
(*                                                                         *)
(* Text is modelled as a sequence of characters (one-character strings);   *)
(* diagnostic texts that are only stored and compared are sequences of     *)
(* chunks.  Durations are integers (ticks) and are printed and parsed as   *)
(* decimal integer literals.  A Python value that may be None is <<>>      *)
(* (None) or <<v>> (a value).                                              *)
(***************************************************************************)
EXTENDS Integers, Sequences, FiniteSets, TLC

\* ------------------------------------------------------------------ bounds
MaxSubs == 1
NumTests == 2
MaxRows == 2

\* ------------------------------------------------------- program constants
timeout_seconds == 30

\* ------------------------------------------------------------ Python values
None == <<>>
Some(v) == <<v>>

Whitespace == {" ", "\n", "\t", "\r"}
Digits == {"0", "1", "2", "3", "4", "5", "6", "7", "8", "9"}
BadByte == "\\xff"

DigitVal(c) ==
    CASE c = "0" -> 0 [] c = "1" -> 1 [] c = "2" -> 2 [] c = "3" -> 3
      [] c = "4" -> 4 [] c = "5" -> 5 [] c = "6" -> 6 [] c = "7" -> 7
      [] c = "8" -> 8 [] OTHER -> 9

\* str.strip(): drop leading and trailing whitespace
RECURSIVE LStrip(_)
LStrip(s) ==
    IF s # <<>> /\ Head(s) \in Whitespace THEN LStrip(Tail(s)) ELSE s

RECURSIVE RStrip(_)
RStrip(s) ==
    IF s # <<>> /\ s[Len(s)] \in Whitespace
    THEN RStrip(SubSeq(s, 1, Len(s) - 1)) ELSE s

Strip(s) == RStrip(LStrip(s))

\* str.startswith(p)
StartsWith(s, p) == Len(s) >= Len(p) /\ SubSeq(s, 1, Len(p)) = p

\* index of the first occurrence of character c in s, 0 when absent
RECURSIVE Find(_, _, _)
Find(s, c, i) ==
    IF i > Len(s) THEN 0 ELSE IF s[i] = c THEN i ELSE Find(s, c, i + 1)

\* str.split(sep, maxsplit); maxsplit = -1 splits at every separator
RECURSIVE Split(_, _, _)
Split(s, sep, maxsplit) ==
    LET k == Find(s, sep, 1) IN
    IF maxsplit = 0 \/ k = 0 THEN <<s>>
    ELSE <<SubSeq(s, 1, k - 1)>>
         \o Split(SubSeq(s, k + 1, Len(s)), sep,
                  IF maxsplit < 0 THEN maxsplit ELSE maxsplit - 1)

\* bytes.decode(): UnicodeDecodeError on a byte that is not valid UTF-8
DecodeRaises(b) == \E i \in 1..Len(b) : b[i] = BadByte

\* float(text): surrounding whitespace is ignored, then an optional sign and
\* a non-empty run of decimal digits; anything else raises ValueError
Unsigned(t) == IF t # <<>> /\ Head(t) \in {"-", "+"} THEN Tail(t) ELSE t

IsFloat(text) ==
    LET u == Unsigned(Strip(text)) IN
    u # <<>> /\ \A i \in 1..Len(u) : u[i] \in Digits

RECURSIVE DecVal(_)
DecVal(u) ==
    IF u = <<>> THEN 0
    ELSE 10 * DecVal(SubSeq(u, 1, Len(u) - 1)) + DigitVal(u[Len(u)])

Float(text) ==
    LET t == Strip(text) IN
    IF t # <<>> /\ Head(t) = "-" THEN 0 - DecVal(Unsigned(t))
    ELSE DecVal(Unsigned(t))


\* -------------------------------------------------------------- test cases
\* a Python value: a list of integers, None, or some other object
PyList(items) == [type |-> "list", items |-> items]
PyObject == [type |-> "object", items |-> <<>>]

\* sorted(array), utils/load_test_cases.py line 22
Sorted(array) == SortSeq(array, LAMBDA a, b : a < b)

\* the array of the i-th seeded row (unsorted, two elements)
Data(i) == <<i, 0>>

\* submit_bot reads the TestCase rows once (no ORDER BY) and hands the list
\* to the run; the rows are seeded before the first request and never change.
test_cases ==
    [i \in 1..NumTests |->
        [id |-> NumTests + 1 - i,
         data |-> Data(NumTests + 1 - i),
         expected_result |-> Sorted(Data(NumTests + 1 - i))]]

\* ------------------------------------------------------------ harness texts
PASS == <<"P", "A", "S", "S">>
FAIL == <<"F", "A", "I", "L">>
ERROR == <<"E", "R", "R", "O", "R">>

sort_array ==
    <<"s", "o", "r", "t", "_", "a", "r", "r", "a", "y">>

NoSortingFunction ==
    <<"N", "o", " ", "s", "o", "r", "t", "i", "n", "g", " ", "f", "u", "n",
      "c", "t", "i", "o", "n", " ", "f", "o", "u", "n", "d">>

ResultMismatch ==
    <<"R", "e", "s", "u", "l", "t", " ", "m", "i", "s", "m", "a", "t", "c",
      "h">>

\* str(e) of the IndexError of tests/test_bots.py BROKEN_BOT
IndexErrorText ==
    <<"l", "i", "s", "t", " ", "i", "n", "d", "e", "x", " ", "o", "u", "t",
      " ", "o", "f", " ", "r", "a", "n", "g", "e">>

\* str(e) of the TypeError raised by calling an int
NotCallableText ==
    <<"'", "i", "n", "t", "'", " ", "o", "b", "j", "e", "c", "t", " ", "i",
      "s", " ", "n", "o", "t", " ", "c", "a", "l", "l", "a", "b", "l", "e">>

\* what the interpreter writes to stderr for a file that does not compile
SyntaxErrorText == <<"SyntaxError: invalid syntax">>

DigitChar(d) == CHOOSE c \in Digits : DigitVal(c) = d

\* str() of a non-negative duration
RECURSIVE Str(_)
Str(n) ==
    IF n < 10 THEN <<DigitChar(n)>>
    ELSE Str(n \div 10) \o <<DigitChar(n % 10)>>

\* ----------------------------------------------------------- candidate code
\* Bot code is the text pasted into the harness file at line 66.  It is
\* modelled by what running it does: `load` is what its module-level
\* statements do, `defs` the names they leave in globals(), in insertion
\* order, each bound to a function the code defines, a function it imports,
\* a class or a plain value, `acts` what a call of a function may do, and
\* `durs` the durations a call may take.  `prints` is what the module-level
\* statements write to stdout.
Def(name, kind, acts) == [name |-> name, kind |-> kind, acts |-> acts]

Code(load, defs, durs) ==
    [load |-> load, defs |-> defs, durs |-> durs, prints |-> <<>>,
     status |-> 0]

\* code whose module-level statements write `out` to stdout and then leave
\* the interpreter (sys.exit(status)) before the harness block of line 69
Printer(out) ==
    [load |-> "exit", defs |-> <<>>, durs |-> {1}, prints |-> out,
     status |-> 0]

my_sort == <<"m", "y", "_", "s", "o", "r", "t">>
other == <<"o", "t", "h", "e", "r">>
helper_name == <<"_", "h", "e", "l", "p", "e", "r">>
Sorter == <<"S", "o", "r", "t", "e", "r">>
copy == <<"c", "o", "p", "y">>

\* a bot whose sort_array sorts, returns its argument unchanged or never
\* returns, depending on the call
FlakyBot ==
    Code("ok", <<Def(sort_array, "function", {"sorted", "identity", "loops"})>>,
         {2})

\* tests/test_bots.py BUILTIN_SORT_BOT, BROKEN_BOT, INFINITE_LOOP_BOT
BUILTIN_SORT_BOT ==
    Code("ok", <<Def(sort_array, "function", {"sorted"})>>, {1, 3})
BROKEN_BOT ==
    Code("ok", <<Def(sort_array, "function", {"raises"})>>, {1})
INFINITE_LOOP_BOT ==
    Code("ok", <<Def(sort_array, "function", {"loops"})>>, {1})

\* tests/test_bots.py BUBBLE_SORT_BOT: sorts arr in place and returns it
BUBBLE_SORT_BOT ==
    Code("ok", <<Def(sort_array, "function", {"in_place"})>>, {1})

\* def sort_array(arr): return arr
WrongBot ==
    Code("ok", <<Def(sort_array, "function", {"identity"})>>, {1})

\* tests/test_api.py test_bot_with_syntax_error
SyntaxErrorBot == Code("syntax_error", <<>>, {1})

\* print("PASS,0"); sys.exit(0) at module level
CheaterBot == Printer(PASS \o <<",", "0", "\n">>)

\* what other printing bots write: a verdict word alone, with a duration
\* field that is or is not a number, followed by a second line, nothing,
\* text that is no verdict, a byte that is not UTF-8
PrintedTexts ==
    {<<"P", "A", "S", "S", "\n">>,
     <<"P", "A", "S", "S", ",", "a", "b", "c", "\n">>,
     <<"P", "A", "S", "S", "\n", "1", ",", "2", "\n">>,
     <<"P", "A", "S", "S", ",", "7", "\n">>,
     <<"F", "A", "I", "L", "\n">>,
     <<"F", "A", "I", "L", ",", "3", "\n">>,
     <<"F", "A", "I", "L", "\n", "1", ",", "2", ",", "3", "\n">>,
     <<>>,
     <<"a", ",", "b", "\n">>,
     <<"F", "A", "I", "L", ",", "x", ",", "b", "o", "o", "m", "\n">>,
     <<BadByte>>}

\* each of them ending in sys.exit(0) or in sys.exit(1)
Printers ==
    {[Printer(out) EXCEPT !.status = n] : out \in PrintedTexts, n \in {0, 1}}

\* str(e) of ValueError("a,b") and of ValueError("x ")
CommaText == <<"a", ",", "b">>
SpaceText == <<"x", " ">>

\* bots whose sort_array raises one of these, or calls sys.exit(0)
EdgeBots ==
    {Code("ok", <<Def(sort_array, "function", {act})>>, {1}) :
        act \in {"raises_commas", "raises_space", "exits"}}

\* no function at all; only a private function; only a class
EmptyBot == Code("ok", <<>>, {1})
PrivateOnlyBot == Code("ok", <<Def(helper_name, "function", {"sorted"})>>, {1})
ClassOnlyBot == Code("ok", <<Def(Sorter, "class", {"sorted"})>>, {1})

\* no sort_array: a private function, a class, then two functions
FallbackBot ==
    Code("ok", <<Def(helper_name, "function", {"identity"}),
                 Def(Sorter, "class", {"identity"}),
                 Def(my_sort, "function", {"sorted", "identity", "raises", "loops"}),
                 Def(other, "function", {"identity"})>>, {1, 2})

\* sort_array defined after another function
PreferredBot ==
    Code("ok", <<Def(other, "function", {"identity"}),
                 Def(sort_array, "function", {"sorted"})>>, {1})

\* sort_array = 5, followed by a sorting function
ShadowedBot ==
    Code("ok", <<Def(sort_array, "value", {"sorted"}),
                 Def(my_sort, "function", {"sorted"})>>, {1})

\* from copy import copy, followed by a sorting function
ImportedBot ==
    Code("ok", <<Def(copy, "imported", {"identity"}),
                 Def(my_sort, "function", {"sorted"})>>, {1})

Candidates ==
    {BUILTIN_SORT_BOT, BROKEN_BOT, INFINITE_LOOP_BOT, BUBBLE_SORT_BOT, WrongBot,
     SyntaxErrorBot, CheaterBot, EmptyBot, PrivateOnlyBot, ClassOnlyBot,
     FallbackBot, PreferredBot, ShadowedBot, ImportedBot}
    \cup Printers \cup EdgeBots

\* calling the object bound by d on a list holding data: what the call
\* returns (value) and what it leaves in the list it was given (arg)
Call(d, act, data) ==
    IF d.kind = "value" THEN [kind |-> "raises", text |-> NotCallableText]
    ELSE IF d.kind = "class"
    THEN [kind |-> "returns", value |-> PyObject, arg |-> PyList(data)]
    ELSE CASE act = "sorted" ->
                  [kind |-> "returns", value |-> PyList(Sorted(data)),
                   arg |-> PyList(data)]
           [] act = "identity" ->
                  [kind |-> "returns", value |-> PyList(data),
                   arg |-> PyList(data)]
           [] act = "in_place" ->
                  [kind |-> "returns", value |-> PyList(Sorted(data)),
                   arg |-> PyList(Sorted(data))]
           [] act = "raises" ->
                  [kind |-> "raises", text |-> IndexErrorText]
           [] act = "raises_commas" ->
                  [kind |-> "raises", text |-> CommaText]
           [] act = "raises_space" ->
                  [kind |-> "raises", text |-> SpaceText]
           [] act = "exits" -> [kind |-> "exits"]
           [] OTHER -> [kind |-> "loops"]

\* ------------------------------------------------------------ the harness
\* What a harness child does once spawned: the bytes it writes to stdout and
\* stderr, whether it is still running when the timeout expires, and the
\* index in defs of the object it called (0: none), the status it exits
\* with, and the list its variable test_data is bound to when it ends (None
\* when line 70 was never reached).
ChildRun(out, err, hangs, entry) ==
    [out |-> out, err |-> err, hangs |-> hangs, entry |-> entry,
     returncode |-> 0, test_data |-> None]

\* a harness that hands test_data itself to the entry point
TestDataShared(test_data, r) ==
    IF r.kind = "returns" THEN r.arg ELSE test_data

\* lines 70, 76, 83: the entry point is given test_data.copy(), so the list
\* bound to test_data is after the call r what it was before
TestDataAfter(test_data, r) == test_data

NoChild == ChildRun(<<>>, <<>>, FALSE, 0)

\* inspect.isfunction(obj): a Python function, wherever it was defined
isfunction(d) == d.kind \in {"function", "imported"}

\* a fallback that does not look at the name
functions_any(defs) ==
    SelectSeq([i \in 1..Len(defs) |-> i], LAMBDA i : isfunction(defs[i]))

\* lines 80-81: the functions of globals() with a public name, in order
functions(defs) ==
    SelectSeq([i \in 1..Len(defs) |-> i],
              LAMBDA i : isfunction(defs[i])
                         /\ ~StartsWith(defs[i].name, <<"_">>))

\* lines 75-85: the object the harness calls; 0 when it raises instead
EntryPoint(defs) ==
    IF \E i \in DOMAIN defs : defs[i].name = sort_array
    THEN CHOOSE i \in DOMAIN defs : defs[i].name = sort_array
    ELSE IF functions(defs) # <<>> THEN functions(defs)[1]
    ELSE 0

\* a comparison by identity: the returned list is never the literal of line 91
VerdictIdentity(result, expected, execution_time) ==
    FAIL \o <<",">> \o Str(execution_time) \o <<",">> \o ResultMismatch
    \o <<"\n">>

\* lines 91-95: the verdict line for a returned value
Verdict(result, expected, execution_time) ==
    IF result = expected
    THEN PASS \o <<",">> \o Str(execution_time) \o <<"\n">>
    ELSE FAIL \o <<",">> \o Str(execution_time) \o <<",">> \o ResultMismatch
         \o <<"\n">>

\* lines 96-99
ErrorLine(execution_time, text) ==
    ERROR \o <<",">> \o Str(execution_time) \o <<",">> \o text \o <<"\n">>

\* lines 61-99: one run of the generated file for bot code `code` on test
\* case tc, when the call behaves as `act` and takes execution_time
Harness(code, tc, act, execution_time) ==
    IF code.load = "syntax_error"
    THEN [ChildRun(<<>>, SyntaxErrorText, FALSE, 0) EXCEPT !.returncode = 1]
    ELSE IF code.load = "exit"
    THEN [ChildRun(code.prints, <<>>, FALSE, 0)
             EXCEPT !.returncode = code.status]
    ELSE
    LET e == EntryPoint(code.defs)
        test_data == PyList(tc.data)
    IN
    IF e = 0
    THEN [ChildRun(ErrorLine(execution_time, NoSortingFunction), <<>>,
                   FALSE, 0) EXCEPT !.test_data = Some(test_data)]
    ELSE
    LET r == Call(code.defs[e], act, tc.data)
        run == IF r.kind = "loops" THEN ChildRun(<<>>, <<>>, TRUE, e)
               ELSE IF r.kind = "exits" THEN ChildRun(<<>>, <<>>, FALSE, e)
               ELSE IF r.kind = "raises"
               THEN ChildRun(ErrorLine(execution_time, r.text), <<>>,
                             FALSE, e)
               ELSE ChildRun(Verdict(r.value, PyList(tc.expected_result),
                                     execution_time),
                             <<>>, FALSE, e)
    IN [run EXCEPT !.test_data = Some(TestDataAfter(test_data, r))]

\* what the called object may do
Acts(code) ==
    IF code.load = "ok" /\ EntryPoint(code.defs) # 0
    THEN code.defs[EntryPoint(code.defs)].acts
    ELSE {"none"}

\* every run the generated file can make
HarnessRuns(code, tc) ==
    {Harness(code, tc, act, d) : act \in Acts(code), d \in code.durs}

\* time.time() - start_time measured by the runner around the child
Elapsed == {1}

\* the bots table: two bots have been created (create_bot, main.py 92-108)
bots ==
    <<[id |-> "b1", code |-> FlakyBot], [id |-> "b3", code |-> BUILTIN_SORT_BOT]>>

\* bot ids a submit request may name; "b2" is not in the table
BotIds == {"b1", "b2"}

\* ------------------------------------------------------------ BotResult row
BotResult(submission_id, test_case_id, execution_time, success, error_message) ==
    [submission_id |-> submission_id, test_case_id |-> test_case_id,
     execution_time |-> execution_time, success |-> success,
     error_message |-> error_message]

\* ------------------------------------------------------------ verdict parse
Raised(msg) == [raises |-> TRUE, msg |-> msg]
Returned(t, success, msg) ==
    [raises |-> FALSE, execution_time |-> t, success |-> success,
     error_message |-> msg]

UnicodeDecodeError == <<"'utf-8' codec can't decode byte 0xff">>
ValueError(text) == <<"could not convert string to float: '">> \o text \o <<"'">>

\* a parser that takes anything that is neither FAIL nor ERROR for a pass
ParseOutputLenient(stdout, stderr, execution_time) ==
    LET output == Strip(stdout) IN
    IF StartsWith(output, FAIL) THEN
        Returned(execution_time, "fail", Some(<<"Test failed">>))
    ELSE IF StartsWith(output, ERROR) THEN
        Returned(execution_time, "error", Some(stderr))
    ELSE Returned(execution_time, "pass", None)

\* lines 121-153: decode, strip, select the branch by prefix, split, float()
ParseOutput(stdout, stderr, execution_time) ==
    IF DecodeRaises(stdout) THEN Raised(UnicodeDecodeError)
    ELSE
    LET output == Strip(stdout) IN
    IF StartsWith(output, PASS) THEN
        LET parts == Split(output, ",", -1) IN
        IF Len(parts) > 1 /\ ~IsFloat(parts[2]) THEN Raised(ValueError(parts[2]))
        ELSE Returned(IF Len(parts) > 1 THEN Float(parts[2]) ELSE execution_time,
                      "pass", None)
    ELSE IF StartsWith(output, FAIL) THEN
        LET parts == Split(output, ",", 2) IN
        IF Len(parts) > 1 /\ ~IsFloat(parts[2]) THEN Raised(ValueError(parts[2]))
        ELSE Returned(IF Len(parts) > 1 THEN Float(parts[2]) ELSE execution_time,
                      "fail",
                      Some(IF Len(parts) > 2 THEN parts[3] ELSE <<"Test failed">>))
    ELSE
        LET parts == Split(output, ",", 2) IN
        IF Len(parts) > 1 /\ ~IsFloat(parts[2]) THEN Raised(ValueError(parts[2]))
        ELSE IF Len(parts) <= 2 /\ DecodeRaises(stderr) THEN Raised(UnicodeDecodeError)
        ELSE Returned(IF Len(parts) > 1 THEN Float(parts[2]) ELSE execution_time,
                      "error",
                      Some(IF Len(parts) > 2 THEN parts[3] ELSE stderr))

\* a timeout handler that trusts what the child had written (a PASS line)
TimeoutResultFromStdout(submission_id, test_case_id) ==
    BotResult(submission_id, test_case_id, Some(2), "pass", None)

\* a timeout handler whose duration depends on which test case was running
TimeoutResultByTest(submission_id, test_case_id) ==
    BotResult(submission_id, test_case_id,
              Some(timeout_seconds + test_case_id), "timeout",
              Some(<<"Execution timed out">>))

\* lines 157-163: the outcome built in the TimeoutError handler
TimeoutResult(submission_id, test_case_id) ==
    BotResult(submission_id, test_case_id, Some(timeout_seconds), "timeout",
              Some(<<"Execution timed out">>))

\* lines 30-35: the outcome evaluate_bot builds from a caught exception
ErrorResult(submission_id, test_case_id, msg) ==
    BotResult(submission_id, test_case_id, None, "error", Some(msg))


\* ------------------------------------------------------------------ scoring
RECURSIVE SumTimes(_)
SumTimes(rs) ==
    IF rs = <<>> THEN 0 ELSE rs[1].execution_time[1] + SumTimes(Tail(rs))

Abs(n) == IF n < 0 THEN 0 - n ELSE n

RECURSIVE GCD(_, _)
GCD(a, b) == IF b = 0 THEN a ELSE GCD(b, a % b)

\* the quotient n / d as a fraction in lowest terms (d > 0)
Quotient(n, d) ==
    LET g == GCD(Abs(n), d) IN [num |-> n \div g, den |-> d \div g]

\* a filter that keeps every outcome that has a duration, whatever its kind
successful_results_timed(rs) ==
    SelectSeq(rs, LAMBDA r : r.execution_time # None)

\* line 40
successful_results(rs) ==
    SelectSeq(rs, LAMBDA r : r.success = "pass" /\ r.execution_time # None)

\* a score that charges the timeout when nothing passed
total_score_penalty(rs) ==
    IF successful_results(rs) # <<>>
    THEN Quotient(SumTimes(successful_results(rs)), Len(successful_results(rs)))
    ELSE Quotient(timeout_seconds, 1)

\* lines 41-44
total_score(rs) ==
    IF successful_results(rs) # <<>>
    THEN Quotient(SumTimes(successful_results(rs)), Len(successful_results(rs)))
    ELSE Quotient(0, 1)

\* -------------------------------------------------------------------- state
VARIABLES
    submissions,   \* committed bot_submissions table: submission id -> row
    bot_results,   \* committed bot_results table, in insertion order
    pc,            \* submission id -> position of its run_bot_evaluation task
    idx,           \* submission id -> index of the test case the loop is at
    results,       \* submission id -> the local list `results` of evaluate_bot
    session_new,   \* submission id -> rows db.add()ed, not yet committed
    procs,         \* submission id -> test index -> state of its child process
    child,         \* submission id -> behaviour of the child being awaited
    tempfiles,     \* temporary harness files that exist, as <<submission, index>>
    bot_code,      \* submission id -> the bot_code argument of its task
    http,          \* the API request served last and the response to it
    settings       \* the Settings object the process was started with

vars == <<submissions, bot_results, pc, idx, results, session_new,
          procs, child, tempfiles, bot_code, http, settings>>

SubIds == DOMAIN submissions

\* a request and the response the handler gave: the status code and the body
Served(request, status_code, body) ==
    [request |-> request, status_code |-> status_code, body |-> body]

NoRequest == Served(<<>>, 0, <<>>)

\* core/config.py: the bot execution settings, read from the environment
\* or .env when the module is imported
Settings(bot_timeout) == [bot_timeout |-> bot_timeout]

\* bot_timeout: int = 30
DefaultSettings == Settings(30)

\* values a deployment may give BOT_TIMEOUT
BotTimeouts == {30, 5}

Init ==
    /\ submissions = <<>>
    /\ bot_results = <<>>
    /\ pc = <<>>
    /\ idx = <<>>
    /\ results = <<>>
    /\ session_new = <<>>
    /\ procs = <<>>
    /\ child = <<>>
    /\ tempfiles = {}
    /\ bot_code = <<>>
    /\ http = NoRequest
    /\ settings = DefaultSettings

\* ------------------------------------------------------------------ store
\* an add that commits each row as it is produced
DbAddCommitted(s, r) ==
    /\ session_new' = [session_new EXCEPT ![s] = Append(@, r)]
    /\ bot_results' = Append(bot_results, r)

\* Session.add: the row is pending in the session, nothing reaches the store
DbAdd(s, r) ==
    /\ session_new' = [session_new EXCEPT ![s] = Append(@, r)]
    /\ bot_results' = bot_results

\* ------------------------------------------------------------- API handlers
BotExists(b) == \E i \in DOMAIN bots : bots[i].id = b

BotCode(b) == bots[CHOOSE i \in DOMAIN bots : bots[i].id = b].code

\* background_tasks.add_task(run_bot_evaluation, bot.code, ...), main.py 148
NewTask(position, code) ==
    /\ pc' = Append(pc, position)
    /\ bot_code' = Append(bot_code, code)
    /\ idx' = Append(idx, 1)
    /\ results' = Append(results, <<>>)
    /\ session_new' = Append(session_new, <<>>)
    /\ procs' = Append(procs, [i \in 1..NumTests |-> "none"])
    /\ child' = Append(child, NoChild)

\* line 155: the body of the answer to a served submit
submit_bot_response(s) == [submission_id |-> s, status |-> "pending"]

\* a submit that stores the new submission as already running
submit_bot_running(b) ==
    /\ Len(submissions) < MaxSubs
    /\ BotExists(b)
    /\ submissions' = Append(submissions,
           [bot_id |-> b, status |-> "running", total_score |-> None])
    /\ NewTask("scheduled", BotCode(b))
    /\ http' = Served(<<"submit", b>>, 200,
                       submit_bot_response(Len(submissions) + 1))
    /\ UNCHANGED <<bot_results, tempfiles, settings>>

\* submit_bot, main.py 124-155: 404 unless the bot exists; the pending
\* submission is committed, then the background task is scheduled
submit_bot(b) ==
    /\ Len(submissions) < MaxSubs
    /\ BotExists(b)
    /\ submissions' = Append(submissions,
           [bot_id |-> b, status |-> "pending", total_score |-> None])
    /\ NewTask("scheduled", BotCode(b))
    /\ http' = Served(<<"submit", b>>, 200,
                       submit_bot_response(Len(submissions) + 1))
    /\ UNCHANGED <<bot_results, tempfiles, settings>>

\* a submit that stores the submission before it looks the bot up
submit_bot_not_found_stored(b) ==
    /\ ~BotExists(b)
    /\ submissions' = Append(submissions,
           [bot_id |-> b, status |-> "pending", total_score |-> None])
    /\ NewTask("unscheduled", <<>>)
    /\ http' = Served(<<"submit", b>>, 404, <<"Bot not found">>)
    /\ UNCHANGED <<bot_results, tempfiles, settings>>

\* lines 131-133: no bot has this id, HTTPException(404)
submit_bot_not_found(b) ==
    /\ ~BotExists(b)
    /\ http' = Served(<<"submit", b>>, 404, <<"Bot not found">>)
    /\ UNCHANGED <<submissions, bot_results, pc, idx, results, session_new,
                   procs, child, tempfiles, bot_code, settings>>

\* submit_bot when db.refresh (142) or the TestCase query (145) raises: the
\* submission row is already committed and no task is scheduled
submit_bot_fault(b) ==
    /\ Len(submissions) < MaxSubs
    /\ BotExists(b)
    /\ submissions' = Append(submissions,
           [bot_id |-> b, status |-> "pending", total_score |-> None])
    /\ NewTask("unscheduled", BotCode(b))
    /\ http' = Served(<<"submit", b>>, 500, <<"Internal Server Error">>)
    /\ UNCHANGED <<bot_results, tempfiles, settings>>

\* get_submission, main.py 179-193
get_submission(s) ==
    [id |-> s, bot_id |-> submissions[s].bot_id,
     status |-> submissions[s].status,
     total_score |-> submissions[s].total_score]

\* get_submission_results, main.py 195-213: the committed rows of s
get_submission_results(s) ==
    SelectSeq(bot_results, LAMBDA r : r.submission_id = s)

\* ---------------------------------------------------------- get_leaderboard
\* a query that treats the score 0 as no score
OnLeaderboardScored(s) ==
    /\ submissions[s].status = "completed"
    /\ submissions[s].total_score # None
    /\ submissions[s].total_score[1].num > 0
    /\ BotExists(submissions[s].bot_id)

\* lines 233-236: the rows the query keeps
OnLeaderboard(s) ==
    /\ submissions[s].status = "completed"
    /\ submissions[s].total_score # None
    /\ BotExists(submissions[s].bot_id)

\* an ordering by descending score
ScoreDesc(a, b) == b.num * a.den <= a.num * b.den

\* line 253, order_by(total_score.asc()): score a may come before score b
ScoreAsc(a, b) == a.num * b.den <= b.num * a.den

Min(a, b) == IF a < b THEN a ELSE b

\* line 253: the orders in which the store may return the kept rows (rows
\* with equal scores come in any order)
Ordered(rows) ==
    {q \in [1..Cardinality(rows) -> rows] :
        /\ \A i, j \in DOMAIN q : i # j => q[i] # q[j]
        /\ \A i, j \in DOMAIN q :
               i < j => ScoreAsc(submissions[q[i]].total_score[1],
                                submissions[q[j]].total_score[1])}

\* lines 255-266: one entry per returned row, ranked from offset + 1
LeaderboardEntry(rank, s) ==
    [rank |-> rank, submission_id |-> s, bot_id |-> submissions[s].bot_id,
     total_score |-> submissions[s].total_score[1]]

\* get_leaderboard, main.py 215-268, without the optional filters; the
\* store rejects a negative LIMIT or OFFSET
get_leaderboard(limit, offset) ==
    /\ limit >= 0
    /\ offset >= 0
    /\ \E q \in Ordered({s \in SubIds : OnLeaderboard(s)}) :
           LET page == SubSeq(q, offset + 1, Min(offset + limit, Len(q))) IN
           http' = Served(<<"leaderboard", limit, offset>>, 200,
                          [k \in 1..Len(page) |->
                              LeaderboardEntry(offset + k, page[k])])
    /\ UNCHANGED <<submissions, bot_results, pc, idx, results, session_new,
                   procs, child, tempfiles, bot_code, settings>>

\* --------------------------------------------------- run_bot_evaluation
\* an except branch that writes a status outside the documented four
run_bot_evaluation_except_error(s, pending) ==
    /\ pc' = [pc EXCEPT ![s] = "aborted"]
    /\ session_new' = [session_new EXCEPT ![s] = <<>>]
    /\ \/ /\ submissions' = [submissions EXCEPT ![s].status = "error"]
          /\ bot_results' = bot_results \o pending
       \/ /\ submissions' = submissions
          /\ bot_results' = bot_results

\* an except branch that puts the submission back in the queue
run_bot_evaluation_except_retry(s, pending) ==
    /\ pc' = [pc EXCEPT ![s] = "aborted"]
    /\ session_new' = [session_new EXCEPT ![s] = <<>>]
    /\ submissions' = [submissions EXCEPT ![s].status = "pending"]
    /\ bot_results' = bot_results \o pending

\* main.py 169-177: the except branch.  `pending` is what the session still
\* holds.  The handler's own query (172) or commit (175) may raise as well;
\* then nothing is written and the exception leaves the task.
run_bot_evaluation_except(s, pending) ==
    /\ pc' = [pc EXCEPT ![s] = "aborted"]
    /\ session_new' = [session_new EXCEPT ![s] = <<>>]
    /\ \/ /\ submissions' = [submissions EXCEPT ![s].status = "failed"]
          /\ bot_results' = bot_results \o pending
       \/ /\ submissions' = submissions
          /\ bot_results' = bot_results

\* a task that is started again after it has finished
run_bot_evaluation_again(s) ==
    /\ pc[s] \in {"scheduled", "done"}
    /\ submissions' = [submissions EXCEPT ![s].status = "running"]
    /\ pc' = [pc EXCEPT ![s] = "loop"]
    /\ UNCHANGED <<bot_results, idx, results, session_new, procs, child,
                   tempfiles, bot_code, http,
                   settings>>

\* main.py 159-164, no fault: status running is committed, evaluate_bot starts
run_bot_evaluation(s) ==
    /\ pc[s] = "scheduled"
    /\ submissions' = [submissions EXCEPT ![s].status = "running"]
    /\ pc' = [pc EXCEPT ![s] = "loop"]
    /\ UNCHANGED <<bot_results, idx, results, session_new, procs, child,
                   tempfiles, bot_code, http,
                   settings>>

\* main.py 162-164 when the query or the commit raises
run_bot_evaluation_fault(s) ==
    /\ pc[s] = "scheduled"
    /\ run_bot_evaluation_except(s, <<>>)
    /\ UNCHANGED <<idx, results, procs, child, tempfiles, bot_code, http,
                   settings>>


\* ------------------------------------------------------------ evaluate_bot
\* a loop that stops after the first test case
LoopDoneEarly(s) == idx[s] > 1

\* the for loop of line 23 has consumed every test case
LoopDone(s) == idx[s] > Len(test_cases)

CurrentTest(s) == test_cases[idx[s]]

\* a result that is added to the session by the runner and by its caller
RecordedTwice(s, r) ==
    /\ session_new' = [session_new EXCEPT ![s] = Append(Append(@, r), r)]
    /\ bot_results' = bot_results
    /\ results' = [results EXCEPT ![s] = Append(@, r)]
    /\ idx' = [idx EXCEPT ![s] = @ + 1]
    /\ pc' = [pc EXCEPT ![s] = "loop"]

\* lines 172-173 and 25-26: _run_single_test adds its result to the session
\* and returns it, evaluate_bot appends it and moves to the next test case
Recorded(s, r) ==
    /\ DbAdd(s, r)
    /\ results' = [results EXCEPT ![s] = Append(@, r)]
    /\ idx' = [idx EXCEPT ![s] = @ + 1]
    /\ pc' = [pc EXCEPT ![s] = "loop"]

\* Caught without the append of line 37: the faulted test case gets no outcome
CaughtDropped(s, msg) ==
    /\ DbAdd(s, ErrorResult(s, CurrentTest(s).id, msg))
    /\ results' = results
    /\ idx' = [idx EXCEPT ![s] = @ + 1]
    /\ pc' = [pc EXCEPT ![s] = "loop"]

\* Caught without the try/except of lines 24-27: the exception leaves
\* evaluate_bot and ends the run
CaughtAborts(s, msg) ==
    /\ pc' = [pc EXCEPT ![s] = "aborted"]
    /\ session_new' = [session_new EXCEPT ![s] = <<>>]
    /\ bot_results' = bot_results
    /\ UNCHANGED <<results, idx>>

\* lines 27-37: _run_single_test raised; evaluate_bot records an error
\* outcome carrying str(e) and moves to the next test case
Caught(s, msg) ==
    Recorded(s, ErrorResult(s, CurrentTest(s).id, msg))

WriteError == <<"[Errno 28] No space left on device">>
SpawnError == <<"[Errno 2] No such file or directory: 'python'">>

\* line 101 raises: the file exists (delete=False) and the exception leaves
\* the with block before the try/finally of line 104 is entered
write_fault(s) ==
    /\ pc[s] = "loop"
    /\ ~LoopDone(s)
    /\ tempfiles' = tempfiles \cup {<<s, idx[s]>>}
    /\ Caught(s, WriteError)
    /\ UNCHANGED <<submissions, procs, child, bot_code, http,
                   settings>>

\* a cleanup that empties the directory of harness files
UnlinkAll(files, s, i) == {}

\* lines 165-170
Unlink(files, s, i) == files \ {<<s, i>>}

\* a runner that starts the children of all remaining test cases at once
spawn_gather(s) ==
    /\ pc[s] = "loop"
    /\ ~LoopDone(s)
    /\ tempfiles' = tempfiles \cup {<<s, idx[s]>>}
    /\ \E c \in HarnessRuns(bot_code[s], CurrentTest(s)) :
           child' = [child EXCEPT ![s] = c]
    /\ procs' = [procs EXCEPT ![s] =
           [i \in DOMAIN @ |-> IF i >= idx[s] THEN "running" ELSE @[i]]]
    /\ pc' = [pc EXCEPT ![s] = "wait"]
    /\ UNCHANGED <<submissions, bot_results, idx, results, session_new,
                   bot_code, http, settings>>

\* lines 58-111: the harness file is written and the child is spawned; the
\* task then awaits communicate() under the timeout
spawn(s) ==
    /\ pc[s] = "loop"
    /\ ~LoopDone(s)
    /\ tempfiles' = tempfiles \cup {<<s, idx[s]>>}
    /\ \E c \in HarnessRuns(bot_code[s], CurrentTest(s)) :
           child' = [child EXCEPT ![s] = c]
    /\ procs' = [procs EXCEPT ![s][idx[s]] = "running"]
    /\ pc' = [pc EXCEPT ![s] = "wait"]
    /\ UNCHANGED <<submissions, bot_results, idx, results, session_new,
                   bot_code, http,
                   settings>>

\* line 107 raises: finally removes the file written at 101, the exception
\* reaches line 27
spawn_fault(s) ==
    /\ pc[s] = "loop"
    /\ ~LoopDone(s)
    /\ tempfiles' = Unlink(tempfiles \cup {<<s, idx[s]>>}, s, idx[s])
    /\ Caught(s, SpawnError)
    /\ UNCHANGED <<submissions, procs, child, bot_code, http,
                   settings>>

\* a runner that records an error for every child that exits non-zero
communicate_checks_returncode(s) ==
    /\ pc[s] = "wait"
    /\ ~child[s].hangs
    /\ \E execution_time \in Elapsed :
         LET p == ParseOutput(child[s].out, child[s].err, execution_time) IN
         IF p.raises THEN Caught(s, p.msg)
         ELSE IF child[s].returncode # 0
         THEN Recorded(s, BotResult(s, CurrentTest(s).id,
                                    Some(execution_time), "error",
                                    Some(child[s].err)))
         ELSE Recorded(s, BotResult(s, CurrentTest(s).id,
                                    Some(p.execution_time), p.success,
                                    p.error_message))
    /\ procs' = [procs EXCEPT ![s][idx[s]] = "exited"]
    /\ child' = [child EXCEPT ![s] = NoChild]
    /\ tempfiles' = Unlink(tempfiles, s, idx[s])
    /\ UNCHANGED <<submissions, bot_code, http,
                   settings>>

\* lines 114-153, 165-173: the child exited before the timeout; its
\* returncode is never read
communicate(s) ==
    /\ pc[s] = "wait"
    /\ ~child[s].hangs
    /\ \E execution_time \in Elapsed :
         LET p == ParseOutput(child[s].out, child[s].err, execution_time) IN
         IF p.raises THEN Caught(s, p.msg)
         ELSE Recorded(s, BotResult(s, CurrentTest(s).id,
                                    Some(p.execution_time), p.success,
                                    p.error_message))
    /\ procs' = [procs EXCEPT ![s][idx[s]] = "exited"]
    /\ child' = [child EXCEPT ![s] = NoChild]
    /\ tempfiles' = Unlink(tempfiles, s, idx[s])
    /\ UNCHANGED <<submissions, bot_code, http,
                   settings>>

\* a timeout handler without the kill
KillMissing(ps, s, i) == ps

\* a kill that takes down every process of the evaluator
KillAll(ps, s, i) == [t \in DOMAIN ps |-> [j \in DOMAIN ps[t] |-> "killed"]]

\* line 156: process.kill() on the child of test index i of submission s
Kill(ps, s, i) == [ps EXCEPT ![s][i] = "killed"]

\* lines 155-173: the wait reached the timeout first
timeout(s) ==
    /\ pc[s] = "wait"
    /\ child[s].hangs
    /\ procs' = Kill(procs, s, idx[s])
    /\ child' = [child EXCEPT ![s] = NoChild]
    /\ tempfiles' = Unlink(tempfiles, s, idx[s])
    /\ Recorded(s, TimeoutResult(s, CurrentTest(s).id))
    /\ UNCHANGED <<submissions, bot_code, http,
                   settings>>

\* a final commit that writes the score and the rows but not the status
evaluate_bot_commit_unmarked(s) ==
    /\ pc[s] = "loop"
    /\ LoopDone(s)
    /\ submissions' = [submissions EXCEPT
           ![s].total_score = Some(total_score(results[s]))]
    /\ bot_results' = bot_results \o session_new[s]
    /\ session_new' = [session_new EXCEPT ![s] = <<>>]
    /\ pc' = [pc EXCEPT ![s] = "done"]
    /\ UNCHANGED <<idx, results, procs, child, tempfiles, bot_code, http,
                   settings>>

\* lines 39-52: score, status and every pending row in one commit
evaluate_bot_commit(s) ==
    /\ pc[s] = "loop"
    /\ LoopDone(s)
    /\ submissions' = [submissions EXCEPT
           ![s].total_score = Some(total_score(results[s])),
           ![s].status = "completed"]
    /\ bot_results' = bot_results \o session_new[s]
    /\ session_new' = [session_new EXCEPT ![s] = <<>>]
    /\ pc' = [pc EXCEPT ![s] = "done"]
    /\ UNCHANGED <<idx, results, procs, child, tempfiles, bot_code, http,
                   settings>>

\* line 47 raises: the rows added so far are still pending in the session
\* when the except branch of run_bot_evaluation commits
evaluate_bot_query_fault(s) ==
    /\ pc[s] = "loop"
    /\ LoopDone(s)
    /\ run_bot_evaluation_except(s, session_new[s])
    /\ UNCHANGED <<idx, results, procs, child, tempfiles, bot_code, http,
                   settings>>

\* a failed commit after which the score set at line 48 is still written
\* by the commit of the except branch
evaluate_bot_commit_fault_flushed(s) ==
    /\ pc[s] = "loop"
    /\ LoopDone(s)
    /\ pc' = [pc EXCEPT ![s] = "aborted"]
    /\ session_new' = [session_new EXCEPT ![s] = <<>>]
    /\ submissions' = [submissions EXCEPT
           ![s].total_score = Some(total_score(results[s])),
           ![s].status = "failed"]
    /\ bot_results' = bot_results
    /\ UNCHANGED <<idx, results, procs, child, tempfiles, bot_code, http,
                   settings>>

\* line 51 raises: the failed commit rolls the session back, which drops
\* the pending rows and the unflushed score and status
evaluate_bot_commit_fault(s) ==
    /\ pc[s] = "loop"
    /\ LoopDone(s)
    /\ run_bot_evaluation_except(s, <<>>)
    /\ UNCHANGED <<idx, results, procs, child, tempfiles, bot_code, http,
                   settings>>

\* ------------------------------------------------------------ specification
Next ==
    \/ \E b \in BotIds : submit_bot(b)
    \/ \E b \in BotIds : submit_bot_fault(b)
    \/ \E s \in SubIds : run_bot_evaluation(s)
    \/ \E s \in SubIds : run_bot_evaluation_fault(s)
    \/ \E s \in SubIds : write_fault(s)
    \/ \E s \in SubIds : spawn(s)
    \/ \E s \in SubIds : spawn_fault(s)
    \/ \E s \in SubIds : communicate(s)
    \/ \E s \in SubIds : timeout(s)
    \/ \E s \in SubIds : evaluate_bot_commit(s)
    \/ \E s \in SubIds : evaluate_bot_query_fault(s)
    \/ \E s \in SubIds : evaluate_bot_commit_fault(s)

Spec == Init /\ [][Next]_vars

\* ------------------------------------------------- harness specification
\* The store right after submit_bot has been served once for each of the
\* bots whose code is in `codes`: every submission is pending and its task
\* is scheduled.
Submitted(codes) ==
    /\ submissions = [s \in DOMAIN codes |->
           [bot_id |-> "b1", status |-> "pending", total_score |-> None]]
    /\ bot_results = <<>>
    /\ pc = [s \in DOMAIN codes |-> "scheduled"]
    /\ idx = [s \in DOMAIN codes |-> 1]
    /\ results = [s \in DOMAIN codes |-> <<>>]
    /\ session_new = [s \in DOMAIN codes |-> <<>>]
    /\ procs = [s \in DOMAIN codes |-> [i \in 1..NumTests |-> "none"]]
    /\ child = [s \in DOMAIN codes |-> NoChild]
    /\ tempfiles = {}
    /\ bot_code = codes
    /\ http = Served(<<"submit", "b1">>, 200, submit_bot_response(Len(codes)))

\* one submission of any of the candidate bots, evaluated without faults of
\* the store or of the host, in a deployment with any bot timeout
HarnessInit ==
    /\ \E c \in Candidates : Submitted(<<c>>)
    /\ \E n \in BotTimeouts : settings = Settings(n)

HarnessNext ==
    \/ \E s \in SubIds : run_bot_evaluation(s)
    \/ \E s \in SubIds : spawn(s)
    \/ \E s \in SubIds : communicate(s)
    \/ \E s \in SubIds : timeout(s)
    \/ \E s \in SubIds : evaluate_bot_commit(s)

HarnessSpec == HarnessInit /\ [][HarnessNext]_vars

\* ---------------------------------------------------- fair specification
\* one submission of any candidate, no store fault; the host may fail to
\* write the file or to start the child.  The event loop runs the scheduled
\* task (main.py 148), asyncio.wait_for returns when the child ends or when
\* the timeout expires (lines 114-117), and no step of the task waits for
\* anything else: a task that is not finished eventually moves.
FairNext ==
    \/ \E s \in SubIds : run_bot_evaluation(s)
    \/ \E s \in SubIds : write_fault(s)
    \/ \E s \in SubIds : spawn(s)
    \/ \E s \in SubIds : spawn_fault(s)
    \/ \E s \in SubIds : communicate(s)
    \/ \E s \in SubIds : timeout(s)
    \/ \E s \in SubIds : evaluate_bot_commit(s)

\* the task of submission s moves: it is at another position of
\* run_bot_evaluation or at another test case.  Every step of FairNext that
\* the task of s takes is such a move, and one is possible at every
\* position before the end.
TaskMoves(s) ==
    /\ s \in SubIds
    /\ pc[s] \in {"scheduled", "loop", "wait"}
    /\ \E q \in {"loop", "wait", "done"}, j \in 1..(Len(test_cases) + 1) :
           /\ <<q, j>> # <<pc[s], idx[s]>>
           /\ pc' = [pc EXCEPT ![s] = q]
           /\ idx' = [idx EXCEPT ![s] = j]

FairSpec ==
    /\ HarnessInit
    /\ [][FairNext]_vars
    /\ \A s \in 1..MaxSubs : WF_<<pc, idx>>(TaskMoves(s))

\* ---------------------------------------------- concurrent specification
\* two submissions have been accepted and both tasks are on the event loop
\* of the one process, sharing the evaluator of main.py line 63
ConcInit ==
    /\ Submitted(<<FlakyBot, BROKEN_BOT>>)
    /\ settings = DefaultSettings

ConcNext ==
    \/ \E s \in SubIds : run_bot_evaluation(s)
    \/ \E s \in SubIds : spawn(s)
    \/ \E s \in SubIds : spawn_fault(s)
    \/ \E s \in SubIds : communicate(s)
    \/ \E s \in SubIds : timeout(s)
    \/ \E s \in SubIds : evaluate_bot_commit(s)

ConcSpec == ConcInit /\ [][ConcNext]_vars

\* ----------------------------------------------------- API specification
\* The outcome a finished child leaves for test index i of submission s when
\* the call of the entry point behaves as act and takes d.
Evaluated(s, i, code, act, d) ==
    LET c == Harness(code, test_cases[i], act, d)
        p == ParseOutput(c.out, c.err, 1)
    IN BotResult(s, test_cases[i].id, Some(p.execution_time), p.success,
                 p.error_message)

\* A submission at rest: waiting for its task, failed before its first test
\* case, or completed by a run in which every call behaved alike.
StoredRun(s, kind) ==
    CASE kind = "pending" ->
           [bot_id |-> "b1", pc |-> "scheduled", status |-> "pending",
            results |-> <<>>]
      [] kind = "failed" ->
           [bot_id |-> "b1", pc |-> "aborted", status |-> "failed",
            results |-> <<>>]
      [] kind = "wrong" ->
           [bot_id |-> "b1", pc |-> "done", status |-> "completed",
            results |-> [i \in 1..NumTests |->
                            Evaluated(s, i, FlakyBot, "identity", 2)]]
      [] kind = "slow" ->
           [bot_id |-> "b1", pc |-> "done", status |-> "completed",
            results |-> [i \in 1..NumTests |->
                            Evaluated(s, i, FlakyBot, "sorted", 2)]]
      [] OTHER ->
           [bot_id |-> "b3", pc |-> "done", status |-> "completed",
            results |-> [i \in 1..NumTests |->
                            Evaluated(s, i, BUILTIN_SORT_BOT, "sorted", 1)]]

StoredKinds == {"pending", "failed", "wrong", "slow", "fast"}

RECURSIVE Committed(_, _)
Committed(runs, s) ==
    IF s > Len(runs) THEN <<>>
    ELSE runs[s].results \o Committed(runs, s + 1)

\* a store holding up to MaxRows submissions at rest, no request served yet
ApiInit ==
    \E n \in 0..MaxRows : \E kinds \in [1..n -> StoredKinds] :
        LET runs == [s \in 1..n |-> StoredRun(s, kinds[s])] IN
        /\ submissions = [s \in 1..n |->
               [bot_id |-> runs[s].bot_id, status |-> runs[s].status,
                total_score |-> IF runs[s].status = "completed"
                                THEN Some(total_score(runs[s].results))
                                ELSE None]]
        /\ bot_results = Committed(runs, 1)
        /\ pc = [s \in 1..n |-> runs[s].pc]
        /\ idx = [s \in 1..n |-> Len(runs[s].results) + 1]
        /\ results = [s \in 1..n |-> runs[s].results]
        /\ session_new = [s \in 1..n |-> <<>>]
        /\ procs = [s \in 1..n |-> [i \in 1..NumTests |->
               IF runs[s].status = "completed" THEN "exited" ELSE "none"]]
        /\ child = [s \in 1..n |-> NoChild]
        /\ tempfiles = {}
        /\ bot_code = [s \in 1..n |-> BotCode(runs[s].bot_id)]
        /\ http = NoRequest
        /\ settings = DefaultSettings

ApiNext ==
    \/ \E b \in BotIds : submit_bot(b)
    \/ \E b \in BotIds : submit_bot_fault(b)
    \/ \E b \in BotIds : submit_bot_not_found(b)
    \/ \E limit \in 0..MaxRows, offset \in 0..1 : get_leaderboard(limit, offset)

ApiSpec == ApiInit /\ [][ApiNext]_vars

TypeOK ==
    /\ \A s \in SubIds :
         /\ pc[s] \in {"unscheduled", "scheduled", "loop", "wait",
                       "done", "aborted"}
         /\ idx[s] \in 1..(NumTests + 1)
         /\ Len(results[s]) <= NumTests
    /\ Len(pc) = Len(submissions)
    /\ settings.bot_timeout \in BotTimeouts


\* ================================================================== claims
Outcome(s, i) == results[s][i]
Status(s) == submissions[s].status
Statuses == {"pending", "running", "completed", "failed"}
ResourceFaults == {Some(WriteError), Some(SpawnError)}

\* C1: when evaluate_bot returns, its result list has one outcome per
\* supplied test case, and at every point the i-th outcome produced so far
\* belongs to this submission and carries the id of the i-th test case.
C1_OneOutcomePerTestCase ==
    \A s \in SubIds :
        /\ pc[s] = "done" => Len(results[s]) = Len(test_cases)
        /\ Len(results[s]) <= Len(test_cases)
        /\ \A i \in DOMAIN results[s] :
               /\ Outcome(s, i).test_case_id = test_cases[i].id
               /\ Outcome(s, i).submission_id = s

C1_Witness ==
    \E s \in SubIds :
        /\ pc[s] = "done"
        /\ Outcome(s, 1).success = "timeout"
        /\ Outcome(s, 2).success = "error"
        /\ Outcome(s, 2).execution_time = None

\* C2: a test case for which no child was ever spawned (temp-file creation,
\* harness write or process spawn raised) has the outcome "error" carrying
\* the fault's description; such a fault never ends the run: a run is only
\* aborted before its first or after its last test case, and a run that
\* returns has evaluated every test case and is completed.
C2_ResourceFaultBecomesError ==
    \A s \in SubIds :
        /\ \A i \in DOMAIN results[s] :
               procs[s][i] = "none" =>
                   /\ Outcome(s, i).success = "error"
                   /\ Outcome(s, i).error_message \in ResourceFaults
        /\ pc[s] = "aborted" =>
               \/ results[s] = <<>>
               \/ Len(results[s]) = Len(test_cases)
        /\ pc[s] = "done" =>
               /\ Len(results[s]) = Len(test_cases)
               /\ Status(s) = "completed"

C2_Witness ==
    \E s \in SubIds :
        /\ pc[s] = "done"
        /\ Status(s) = "completed"
        /\ procs[s][1] = "none"
        /\ Outcome(s, 1).error_message = Some(SpawnError)
        /\ procs[s][2] = "exited"
        /\ Outcome(s, 2).success = "pass"

C4_TimedOutChildNotRunning ==
    \A s \in SubIds : \A i \in DOMAIN results[s] :
        Outcome(s, i).success = "timeout" => procs[s][i] = "killed"

C4_Witness ==
    \E s \in SubIds :
        /\ pc[s] = "done"
        /\ Outcome(s, 1).success = "timeout"
        /\ procs[s][1] = "killed"

\* C5: only the child of a timed-out test case is ever killed; after a
\* timeout the run goes on with the next test case and, when it returns,
\* every test case has an outcome and the submission is completed.
C5_TimeoutCancelsOneChild ==
    \A s \in SubIds :
        /\ \A i \in 1..NumTests :
               procs[s][i] = "killed" =>
                   /\ i \in DOMAIN results[s]
                   /\ Outcome(s, i).success = "timeout"
        /\ \A i \in DOMAIN results[s] :
               (Outcome(s, i).success = "timeout" /\ pc[s] = "done") =>
                   /\ Len(results[s]) = Len(test_cases)
                   /\ \A j \in (i + 1)..Len(test_cases) :
                          Outcome(s, j).test_case_id = test_cases[j].id
                   /\ Status(s) = "completed"

C5_Witness ==
    \E s \in SubIds :
        /\ pc[s] = "done"
        /\ Outcome(s, 1).success = "timeout"
        /\ procs[s][2] = "exited"
        /\ Outcome(s, 2).success = "pass"
        /\ Status(s) = "completed"

\* C6: a submission has a score or the status completed only when every
\* test case has produced its outcome and no evaluation is in progress.
C6_ScoreAfterAllOutcomes ==
    \A s \in SubIds :
        (Status(s) = "completed" \/ submissions[s].total_score # None) =>
            /\ Len(results[s]) = Len(test_cases)
            /\ pc[s] = "done"
            /\ \A i \in 1..NumTests : procs[s][i] # "running"

C6_Witness ==
    \E s \in SubIds :
        /\ Status(s) = "completed"
        /\ submissions[s].total_score = Some([num |-> 2, den |-> 1])
        /\ Outcome(s, 1).success = "error"
        /\ Outcome(s, 2).success = "pass"

\* C7: a submission whose committed status is pending or running has no
\* committed result row.
C7_NoPartialResults ==
    \A s \in SubIds :
        Status(s) \in {"pending", "running"} =>
            get_submission_results(s) = <<>>

C7_Witness ==
    \E s \in SubIds :
        /\ Status(s) = "running"
        /\ Len(session_new[s]) = Len(test_cases)
        /\ get_submission_results(s) = <<>>

C9_StatusDomain ==
    \A s \in SubIds : get_submission(s).status \in Statuses

C9_Witness ==
    \E s \in SubIds :
        /\ get_submission(s).status = "failed"
        /\ pc[s] = "aborted"

\* C10: a run that a store fault aborted leaves the submission failed.
C10_StoreFaultMarksFailed ==
    \A s \in SubIds : pc[s] = "aborted" => Status(s) = "failed"

\* C11: the score of a completed run with at least one Pass outcome is the
\* mean of the durations of exactly its Pass outcomes (score * count = sum),
\* and scoring the same outcomes in any other order gives the same score.
PassIdx(s) == {i \in DOMAIN results[s] : Outcome(s, i).success = "pass"}

RECURSIVE SumOver(_, _)
SumOver(s, I) ==
    IF I = {} THEN 0
    ELSE LET i == CHOOSE j \in I : TRUE
         IN Outcome(s, i).execution_time[1] + SumOver(s, I \ {i})

Permuted(rs, q) == [i \in 1..Len(rs) |-> rs[q[i]]]

C11_ScoreIsMeanOfPasses ==
    \A s \in SubIds :
        (Status(s) = "completed" /\ PassIdx(s) # {}) =>
            LET score == submissions[s].total_score[1] IN
            /\ score.den > 0
            /\ score.num * Cardinality(PassIdx(s))
                   = score.den * SumOver(s, PassIdx(s))
            /\ \A q \in Permutations(DOMAIN results[s]) :
                   total_score(Permuted(results[s], q)) = score

C11_Witness ==
    \E s \in SubIds :
        /\ Status(s) = "completed"
        /\ Outcome(s, 1).success = "fail"
        /\ Outcome(s, 1).execution_time = Some(2)
        /\ Outcome(s, 2).success = "pass"
        /\ Outcome(s, 2).execution_time = Some(1)
        /\ submissions[s].total_score = Some([num |-> 1, den |-> 1])

\* C12: a run that returns with no Pass outcome records the score 0 and
\* the status completed; so does the scoring of an empty outcome list.
C12_NoPassScoresZero ==
    /\ \A s \in SubIds :
           (pc[s] = "done" /\ PassIdx(s) = {}) =>
               /\ submissions[s].total_score = Some([num |-> 0, den |-> 1])
               /\ Status(s) = "completed"
    /\ total_score(<<>>) = [num |-> 0, den |-> 1]

C12_Witness ==
    \E s \in SubIds :
        /\ pc[s] = "done"
        /\ Outcome(s, 1).success = "timeout"
        /\ Outcome(s, 2).success = "fail"
        /\ submissions[s].total_score = Some([num |-> 0, den |-> 1])
        /\ Status(s) = "completed"

\* C13: while the runner waits for a child that called an entry point of a
\* deterministic candidate, the child's line is PASS exactly when the call
\* returned the expected list, FAIL with "Result mismatch" when it returned
\* anything else, and ERROR with the exception's text when it raised.
TheAct(s) == CHOOSE act \in Acts(bot_code[s]) : TRUE

TheCall(s, tc) ==
    Call(bot_code[s].defs[EntryPoint(bot_code[s].defs)], TheAct(s), tc.data)

Deterministic(s) ==
    /\ bot_code[s].load = "ok"
    /\ EntryPoint(bot_code[s].defs) # 0
    /\ Cardinality(Acts(bot_code[s])) = 1

C13_HarnessVerdict ==
    \A s \in SubIds :
        (pc[s] = "wait" /\ Deterministic(s)) =>
            LET r == TheCall(s, CurrentTest(s))
                line == SubSeq(child[s].out, 1, Len(child[s].out) - 1)
                parts == Split(line, ",", 2)
            IN /\ r.kind = "returns" =>
                      /\ StartsWith(line, PASS)
                             <=> r.value = PyList(CurrentTest(s).expected_result)
                      /\ ~StartsWith(line, PASS) =>
                             /\ parts[1] = FAIL
                             /\ parts[3] = ResultMismatch
               /\ r.kind = "raises" =>
                      /\ parts[1] = ERROR
                      /\ parts[3] = r.text

C13_Witness ==
    \E s \in SubIds :
        /\ pc[s] = "wait"
        /\ bot_code[s] = BUILTIN_SORT_BOT
        /\ child[s].out = PASS \o <<",", "3", "\n">>

\* C14: a Pass outcome is recorded for a test case only if the candidate
\* has an entry point and a call of it returned the expected list.
C14_PassOnlyFromEntryPoint ==
    \A s \in SubIds : \A i \in DOMAIN results[s] :
        Outcome(s, i).success = "pass" =>
            /\ bot_code[s].load = "ok"
            /\ EntryPoint(bot_code[s].defs) # 0
            /\ \E act \in Acts(bot_code[s]) :
                   LET r == Call(bot_code[s].defs[EntryPoint(bot_code[s].defs)],
                                 act, test_cases[i].data)
                   IN /\ r.kind = "returns"
                      /\ r.value = PyList(test_cases[i].expected_result)

\* C15: the object the harness calls is the callable named sort_array when
\* the candidate defines one, and otherwise the first function the candidate
\* defines whose name does not start with an underscore.
Callable(d) == d.kind \in {"function", "imported", "class"}

Public(d) == d.name[1] # "_"

PolicyEntry(defs) ==
    IF \E i \in DOMAIN defs : defs[i].name = sort_array /\ Callable(defs[i])
    THEN CHOOSE i \in DOMAIN defs : defs[i].name = sort_array
    ELSE IF \E i \in DOMAIN defs : defs[i].kind = "function" /\ Public(defs[i])
    THEN CHOOSE i \in DOMAIN defs :
             /\ defs[i].kind = "function" /\ Public(defs[i])
             /\ \A j \in 1..(i - 1) :
                    ~(defs[j].kind = "function" /\ Public(defs[j]))
    ELSE 0

C15_EntryPointDiscovery ==
    \A s \in SubIds :
        (pc[s] = "wait" /\ bot_code[s].load = "ok") =>
            child[s].entry = PolicyEntry(bot_code[s].defs)

\* C16: a candidate that loads and defines no sort_array and no public
\* callable gets the Error outcome "No sorting function found" for every
\* test case; its submission exists, is never aborted and ends completed
\* with one outcome per test case.
NoCallable(code) ==
    \A i \in DOMAIN code.defs :
        /\ code.defs[i].name # sort_array
        /\ Callable(code.defs[i]) => ~Public(code.defs[i])

C16_NoSortingFunction ==
    \A s \in SubIds :
        (bot_code[s].load = "ok" /\ NoCallable(bot_code[s])) =>
            /\ \A i \in DOMAIN results[s] :
                   /\ Outcome(s, i).success = "error"
                   /\ Outcome(s, i).error_message = Some(NoSortingFunction)
            /\ pc[s] # "aborted"
            /\ pc[s] = "done" =>
                   /\ Len(results[s]) = Len(test_cases)
                   /\ Status(s) = "completed"

C16_Witness ==
    \E s \in SubIds :
        /\ bot_code[s] = PrivateOnlyBot
        /\ pc[s] = "done"
        /\ Status(s) = "completed"
        /\ Outcome(s, 1).error_message = Some(NoSortingFunction)
        /\ Outcome(s, 2).error_message = Some(NoSortingFunction)

\* C17: a candidate that does not compile, or whose entry point on every
\* call raises or returns something else than the expected list, gets only
\* Fail and Error outcomes; its run is never aborted, its submission is
\* never failed and is completed when the run returns.
FaultyOn(code, tc) ==
    \/ code.load = "syntax_error"
    \/ /\ code.load = "ok"
       /\ EntryPoint(code.defs) # 0
       /\ \A act \in Acts(code) :
              LET r == Call(code.defs[EntryPoint(code.defs)], act, tc.data)
              IN \/ r.kind = "raises"
                 \/ /\ r.kind = "returns"
                    /\ r.value # PyList(tc.expected_result)

C17_CandidateFaultIsNotSystemFault ==
    \A s \in SubIds :
        (\A i \in 1..NumTests : FaultyOn(bot_code[s], test_cases[i])) =>
            /\ \A i \in DOMAIN results[s] :
                   Outcome(s, i).success \in {"fail", "error"}
            /\ pc[s] # "aborted"
            /\ Status(s) # "failed"
            /\ pc[s] = "done" => Status(s) = "completed"

C17_Witness ==
    \E s \in SubIds :
        /\ bot_code[s] = SyntaxErrorBot
        /\ pc[s] = "done"
        /\ Status(s) = "completed"
        /\ Outcome(s, 1).success = "error"
        /\ Outcome(s, 1).error_message = Some(SyntaxErrorText)
        /\ Outcome(s, 1).execution_time = Some(1)

\* C18: a temporary harness file exists only while the invocation of
\* _run_single_test that created it is waiting for its child.
C18_TempFileRemoved ==
    \A s \in SubIds : \A i \in 1..NumTests :
        <<s, i>> \in tempfiles => (pc[s] = "wait" /\ idx[s] = i)

\* C19: no two committed BotResult rows have the same submission_id and
\* test_case_id.
C19_OneResultPerPair ==
    \A i, j \in DOMAIN bot_results :
        (/\ bot_results[i].submission_id = bot_results[j].submission_id
         /\ bot_results[i].test_case_id = bot_results[j].test_case_id)
            => i = j

C19_Witness ==
    \E s \in SubIds :
        /\ pc[s] = "done"
        /\ Len(bot_results) = Len(test_cases)
        /\ bot_results[1].error_message = Some(SpawnError)
        /\ bot_results[2].success = "pass"

\* C20: with two evaluations in progress on the shared evaluator, the
\* harness files that exist are exactly those of the invocations in flight,
\* one each; every outcome and every pending or committed row of a
\* submission carries its own id; every outcome is one that the submission's
\* code can get for that test case when it is evaluated alone; and the
\* committed score is the score of the submission's own outcomes.
InFlight == {s \in SubIds : pc[s] = "wait"}

AloneOutcomes(s, i) ==
    LET tc == test_cases[i] IN
    {ErrorResult(s, tc.id, SpawnError)} \cup
    { IF c.hangs THEN TimeoutResult(s, tc.id)
      ELSE LET p == ParseOutput(c.out, c.err, e)
           IN IF p.raises THEN ErrorResult(s, tc.id, p.msg)
              ELSE BotResult(s, tc.id, Some(p.execution_time), p.success,
                             p.error_message) :
      c \in HarnessRuns(bot_code[s], tc), e \in Elapsed }

C20_ConcurrentRunsIndependent ==
    /\ tempfiles = {<<s, idx[s]>> : s \in InFlight}
    /\ \A s \in SubIds :
           /\ \A i \in DOMAIN results[s] :
                  /\ Outcome(s, i).submission_id = s
                  /\ Outcome(s, i) \in AloneOutcomes(s, i)
           /\ \A i \in DOMAIN session_new[s] :
                  session_new[s][i].submission_id = s
           /\ pc[s] = "done" =>
                  /\ get_submission_results(s) = results[s]
                  /\ submissions[s].total_score = Some(total_score(results[s]))

C20_Witness ==
    /\ InFlight = {1, 2}
    /\ Len(results[1]) = 1
    /\ Len(results[2]) = 1
    /\ Outcome(1, 1).success = "pass"
    /\ Outcome(2, 1).error_message = Some(IndexErrorText)

\* C21: a step in which submit_bot answers 200 adds exactly one submission,
\* pending and without score, for an existing bot, and leaves every other
\* row alone; the answer carries the new id and "pending"; exactly one task
\* is added, scheduled for the new submission with the code of its bot.
C21_SubmitCreatesOnePending ==
    [][(Len(submissions') # Len(submissions) /\ http'.status_code = 200) =>
          LET new == Len(submissions) + 1 IN
          /\ Len(submissions') = new
          /\ \A s \in SubIds : submissions'[s] = submissions[s]
          /\ submissions'[new].status = "pending"
          /\ submissions'[new].total_score = None
          /\ BotExists(submissions'[new].bot_id)
          /\ http'.request = <<"submit", submissions'[new].bot_id>>
          /\ http'.body = [submission_id |-> new, status |-> "pending"]
          /\ Len(pc') = new
          /\ \A s \in SubIds : pc'[s] = pc[s]
          /\ pc'[new] = "scheduled"
          /\ bot_code'[new] = BotCode(submissions'[new].bot_id)
          /\ bot_results' = bot_results]_vars

C21_Witness ==
    /\ http.status_code = 200
    /\ http.body = [submission_id |-> 1, status |-> "pending"]
    /\ Len(submissions) = 1
    /\ submissions[1].status = "pending"
    /\ pc[1] = "scheduled"

\* C22: a step in which submit_bot answers 404 names a bot that is not in
\* the table and changes neither the store nor the tasks; no submission
\* ever refers to a bot that does not exist.
C22_SubmitUnknownBotChangesNothing ==
    [][(http'.status_code = 404) =>
          /\ ~BotExists(http'.request[2])
          /\ UNCHANGED <<submissions, bot_results, pc, idx, results,
                         session_new, procs, child, tempfiles, bot_code>>
          /\ \A s \in SubIds : BotExists(submissions[s].bot_id)]_vars

C22_Witness ==
    /\ http.status_code = 404
    /\ http.request = <<"submit", "b2">>
    /\ Len(submissions) = 2
    /\ pc = <<"scheduled", "done">>

\* C23: the answer of get_leaderboard lists only completed submissions with
\* a score, each at most once, in non-decreasing order of score, at most
\* `limit` of them, with ranks offset + 1, offset + 2, ...
C23_Leaderboard ==
    (http.request # <<>> /\ http.request[1] = "leaderboard") =>
        LET limit == http.request[2]
            offset == http.request[3]
            body == http.body
        IN /\ Len(body) <= limit
           /\ \A k \in DOMAIN body :
                  /\ body[k].rank = offset + k
                  /\ body[k].submission_id \in SubIds
                  /\ Status(body[k].submission_id) = "completed"
                  /\ submissions[body[k].submission_id].total_score
                         = Some(body[k].total_score)
           /\ \A j, k \in DOMAIN body :
                  j < k =>
                      /\ body[j].submission_id # body[k].submission_id
                      /\ body[j].total_score.num * body[k].total_score.den
                             <= body[k].total_score.num * body[j].total_score.den

C23_Witness ==
    /\ http.request = <<"leaderboard", 2, 0>>
    /\ Len(http.body) = 2
    /\ http.body[1].rank = 1
    /\ http.body[1].total_score = [num |-> 1, den |-> 1]
    /\ http.body[1].submission_id = 2
    /\ http.body[2].total_score = [num |-> 2, den |-> 1]

\* ------------------------------------------------- parsing of the verdict
\* the text before the first line break
FirstLine(text) ==
    LET k == Find(text, "\n", 1) IN
    IF k = 0 THEN text ELSE SubSeq(text, 1, k - 1)

\* a step in which the child of s ended by itself and its outcome was taken
Completes(s) ==
    /\ s \in DOMAIN pc
    /\ pc[s] = "wait"
    /\ ~child[s].hangs
    /\ pc'[s] = "loop"
    /\ Len(results'[s]) = Len(results[s]) + 1

NewOutcome(s) == results'[s][Len(results'[s])]

\* the durations the runner may have measured around the child
Fallbacks == {Some(e) : e \in Elapsed}

\* C24: when the child ends by itself and the first line of its stdout
\* starts with PASS, the outcome is pass with no message; its duration is
\* the number in the second comma-separated field of that line, and the
\* duration the runner measured when the line has no second field.
C24_PassLine ==
    [][\A s \in DOMAIN pc :
          (Completes(s) /\ StartsWith(FirstLine(child[s].out), PASS)) =>
              LET f == Split(FirstLine(child[s].out), ",", -1)
                  o == NewOutcome(s)
              IN /\ o.success = "pass"
                 /\ o.error_message = None
                 /\ (Len(f) > 1 /\ IsFloat(f[2])) =>
                        o.execution_time = Some(Float(f[2]))
                 /\ Len(f) = 1 => o.execution_time \in Fallbacks]_vars

\* C25: when the child ends by itself and the first line of its stdout
\* starts with FAIL, the outcome is fail; its duration is the number in the
\* second field, else the measured one; its message is the third field,
\* else "Test failed".
C25_FailLine ==
    [][\A s \in DOMAIN pc :
          (Completes(s) /\ StartsWith(FirstLine(child[s].out), FAIL)) =>
              LET f == Split(FirstLine(child[s].out), ",", 2)
                  o == NewOutcome(s)
              IN /\ o.success = "fail"
                 /\ (Len(f) > 1 /\ IsFloat(f[2])) =>
                        o.execution_time = Some(Float(f[2]))
                 /\ Len(f) = 1 => o.execution_time \in Fallbacks
                 /\ o.error_message
                        = Some(IF Len(f) > 2 THEN f[3]
                               ELSE <<"Test failed">>)]_vars

\* C26: when the child ends by itself and its stdout starts with neither
\* PASS nor FAIL, the parser returns (no exception reaches evaluate_bot, so
\* the outcome carries a duration) an error outcome; its duration is the
\* number in the second field, else the measured one; its message is the
\* third field, else what the child wrote to stderr.
C26_OtherLine ==
    [][\A s \in DOMAIN pc :
          (/\ Completes(s)
           /\ ~StartsWith(FirstLine(child[s].out), PASS)
           /\ ~StartsWith(FirstLine(child[s].out), FAIL)) =>
              LET f == Split(FirstLine(child[s].out), ",", 2)
                  o == NewOutcome(s)
              IN /\ o.success = "error"
                 /\ o.execution_time # None
                 /\ (Len(f) > 1 /\ IsFloat(f[2])) =>
                        o.execution_time = Some(Float(f[2]))
                 /\ Len(f) = 1 => o.execution_time \in Fallbacks
                 /\ o.error_message
                        = Some(IF Len(f) > 2 THEN f[3]
                               ELSE child[s].err)]_vars

\* C27: when the verdict line has a second field that is not a number, the
\* outcome has the kind its prefix selects and the measured duration.
C27_BadDurationFallsBack ==
    [][\A s \in DOMAIN pc :
          LET f == Split(FirstLine(child[s].out), ",", 2) IN
          (Completes(s) /\ Len(f) > 1 /\ ~IsFloat(f[2])) =>
              LET o == NewOutcome(s) IN
              /\ o.success = (IF StartsWith(f[1], PASS) THEN "pass"
                              ELSE IF StartsWith(f[1], FAIL) THEN "fail"
                              ELSE "error")
              /\ o.execution_time \in Fallbacks]_vars

\* C28: when the harness of a loaded candidate printed a verdict line and
\* the child ended, the outcome has the kind of the line's first field, the
\* number of its second field, and as message everything print() wrote
\* between the second comma and the line break (no message for two fields).
C28_VerdictRoundTrip ==
    [][\A s \in DOMAIN pc :
          (/\ Completes(s)
           /\ bot_code[s].load = "ok"
           /\ child[s].out # <<>>) =>
              LET line == SubSeq(child[s].out, 1, Len(child[s].out) - 1)
                  f == Split(line, ",", 2)
                  o == NewOutcome(s)
              IN /\ o.success = (IF f[1] = PASS THEN "pass"
                                 ELSE IF f[1] = FAIL THEN "fail"
                                 ELSE "error")
                 /\ o.execution_time = Some(Float(f[2]))
                 /\ o.error_message
                        = (IF Len(f) > 2 THEN Some(f[3]) ELSE None)]_vars

\* kind, duration and message of an outcome
Triple(o) ==
    [success |-> o.success, execution_time |-> o.execution_time,
     error_message |-> o.error_message]

\* what the captured stdout, stderr, timed-out flag and measured duration
\* determine: the timeout outcome, the parsed one, or the error outcome of
\* an exception raised while parsing
ParsedTriple(stdout, stderr, timed_out, fallback) ==
    IF timed_out
    THEN [success |-> "timeout", execution_time |-> Some(timeout_seconds),
          error_message |-> Some(<<"Execution timed out">>)]
    ELSE LET p == ParseOutput(stdout, stderr, fallback) IN
         IF p.raises
         THEN [success |-> "error", execution_time |-> None,
               error_message |-> Some(p.msg)]
         ELSE [success |-> p.success,
               execution_time |-> Some(p.execution_time),
               error_message |-> p.error_message]

\* C29: the kind, duration and message of the outcome recorded when a wait
\* ends are a function of the child's stdout, stderr, of whether the wait
\* timed out and of the measured duration alone: the same for every test
\* case, submission and earlier outcome.
C29_ParseIsAFunctionOfItsInputs ==
    [][\A s \in DOMAIN pc :
          (/\ pc[s] = "wait"
           /\ pc'[s] = "loop"
           /\ Len(results'[s]) = Len(results[s]) + 1) =>
              Triple(NewOutcome(s))
                  \in {ParsedTriple(child[s].out, child[s].err,
                                    child[s].hangs, e) : e \in Elapsed}]_vars

\* both test cases of one submission gave the same captured output, and the
\* two outcomes agree
C29_Witness ==
    \E s \in SubIds :
        /\ bot_code[s] = CheaterBot
        /\ Len(results[s]) = 2
        /\ Outcome(s, 1).test_case_id # Outcome(s, 2).test_case_id
        /\ Triple(Outcome(s, 1)) = Triple(Outcome(s, 2))
        /\ Outcome(s, 1).success = "pass"

\* one line OUTCOME,elapsedSeconds[,message] and nothing else
IsVerdictLine(out) ==
    /\ out # <<>>
    /\ Find(out, "\n", 1) = Len(out)
    /\ LET f == Split(SubSeq(out, 1, Len(out) - 1), ",", 2) IN
       /\ f[1] \in {PASS, FAIL, ERROR}
       /\ Len(f) >= 2
       /\ IsFloat(f[2])

\* C30: whenever the runner waits for a child that ends by itself, what the
\* child leaves on stdout is exactly one verdict line.
C30_OneVerdictLine ==
    \A s \in SubIds :
        (pc[s] = "wait" /\ ~child[s].hangs) => IsVerdictLine(child[s].out)

\* C31: while the runner waits for a child that called an entry point, the
\* list the child's test_data is bound to is the test case's data, whatever
\* the call did to its argument, and the value compared is the stored
\* expected_result: a candidate that sorts its argument in place and returns
\* it gets a PASS line.
C31_EntryPointGetsACopy ==
    \A s \in SubIds :
        (pc[s] = "wait" /\ bot_code[s].load = "ok" /\ child[s].entry # 0) =>
            /\ child[s].test_data = Some(PyList(CurrentTest(s).data))
            /\ CurrentTest(s).expected_result = Sorted(CurrentTest(s).data)
            /\ (Deterministic(s) /\ TheAct(s) = "in_place") =>
                   StartsWith(child[s].out, PASS)

C31_Witness ==
    \E s \in SubIds :
        /\ pc[s] = "wait"
        /\ bot_code[s] = BUBBLE_SORT_BOT
        /\ CurrentTest(s).data # CurrentTest(s).expected_result
        /\ child[s].test_data = Some(PyList(CurrentTest(s).data))
        /\ child[s].out = PASS \o <<",", "1", "\n">>

\* C32: when a child that exited by itself is taken, the kind and message
\* of its outcome are the ones its stdout and stderr give, whether it exited
\* with status zero or not: an outcome is an error only when the streams
\* make it one.
C32_ExitCodeIgnored ==
    [][\A s \in DOMAIN pc :
          Completes(s) =>
              \E e \in Elapsed :
                  LET byStreams == ParsedTriple(child[s].out, child[s].err,
                                                FALSE, e)
                  IN /\ NewOutcome(s).success = byStreams.success
                     /\ NewOutcome(s).error_message = byStreams.error_message]_vars

\* a child that printed PASS,7 and exited with status 1 was recorded as pass
C32_Witness ==
    \E s \in SubIds :
        /\ bot_code[s] = [Printer(PASS \o <<",", "7", "\n">>)
                             EXCEPT !.status = 1]
        /\ Len(results[s]) >= 1
        /\ Outcome(s, 1).success = "pass"
        /\ Outcome(s, 1).execution_time = Some(7)

\* C33: every outcome evaluate_bot holds for a test case, and every row of
\* the results table, carries a duration, and the duration is not negative.
C33_DurationPresent ==
    /\ \A s \in SubIds : \A i \in DOMAIN results[s] :
           /\ Outcome(s, i).execution_time # None
           /\ Outcome(s, i).execution_time[1] >= 0
    /\ \A k \in DOMAIN bot_results :
           /\ bot_results[k].execution_time # None
           /\ bot_results[k].execution_time[1] >= 0

\* C34: an outcome recorded for a wait that timed out carries the bot
\* timeout of the deployment's settings as its duration.
C34_ConfiguredTimeout ==
    \A s \in SubIds : \A i \in DOMAIN results[s] :
        Outcome(s, i).success = "timeout" =>
            Outcome(s, i).execution_time = Some(settings.bot_timeout)

\* C35: every step that changes the committed status of a submission takes
\* it from pending to running, from running to completed or failed, or
\* (when the task fails before it has committed running) from pending to
\* failed: never back to pending, never out of completed or failed, and to
\* completed only from running.
C35_StatusMovesForward ==
    [][\A s \in SubIds :
          submissions'[s].status # Status(s) =>
              <<Status(s), submissions'[s].status>>
                  \in {<<"pending", "running">>, <<"running", "completed">>,
                       <<"running", "failed">>, <<"pending", "failed">>}]_vars

\* a run that went pending, running, failed: all its test cases were
\* evaluated before the store fault
C35_Witness ==
    \E s \in SubIds :
        /\ Status(s) = "failed"
        /\ pc[s] = "aborted"
        /\ Len(results[s]) = Len(test_cases)

\* C37: a submission whose committed total_score is not null is completed.
C37_ScoreOnlyWhenCompleted ==
    \A s \in SubIds :
        submissions[s].total_score # None => Status(s) = "completed"

\* a run with a Pass outcome whose final commit failed: failed, no score;
\* and a completed one has its score
C37_Witness ==
    \E s \in SubIds :
        /\ Status(s) = "failed"
        /\ Len(results[s]) = Len(test_cases)
        /\ \E i \in DOMAIN results[s] : Outcome(s, i).success = "pass"
        /\ submissions[s].total_score = None
        /\ bot_results = <<>>

\* C38: in one run at most one child is running at any time, a child has
\* been started only for test cases up to the one the loop is at, and every
\* test case before that one has its outcome.
C38_OneChildAtATime ==
    \A s \in SubIds :
        /\ Cardinality({i \in DOMAIN procs[s] : procs[s][i] = "running"}) <= 1
        /\ \A i \in DOMAIN procs[s] :
               procs[s][i] # "none" =>
                   /\ i <= idx[s]
                   /\ Len(results[s]) >= i - 1

C38_Witness ==
    \E s \in SubIds :
        /\ pc[s] = "wait"
        /\ idx[s] = 2
        /\ procs[s][1] = "killed"
        /\ procs[s][2] = "running"
        /\ Outcome(s, 1).success = "timeout"

\* C36: without store faults every pending submission is eventually
\* completed, whatever its candidate does.
C36_EveryRunCompletes ==
    \A s \in 1..MaxSubs :
        (s \in SubIds /\ Status(s) = "pending")
            ~> (s \in SubIds /\ Status(s) = "completed")

\* the bot that loops on every test case: completed after timeouts only
C36_Witness ==
    \E s \in SubIds :
        /\ bot_code[s] = INFINITE_LOOP_BOT
        /\ Status(s) = "completed"
        /\ Len(results[s]) = Len(test_cases)
        /\ \A i \in DOMAIN results[s] : Outcome(s, i).success = "timeout"

\* C39: in an answer of get_leaderboard that starts at the top (offset 0),
\* every completed submission with score 0 stands before every entry with a
\* positive score, and all of them are listed when the answer is not full.
ZeroScored ==
    {s \in SubIds : /\ Status(s) = "completed"
                    /\ submissions[s].total_score = Some([num |-> 0, den |-> 1])}

====
